---- MODULE Spec2Model ----
(***************************************************************************)
(* The leaf-collection API of the tree-leaves application:                 *)
(* src/routes/leaves.js holds the record store (readLeaves, saveLeaves),   *)
(* the leaves router (list, create, clear, stats) and the health router    *)
(* (health, ready, live).  In Spec one request is handled per step; in     *)
(* SpecRace several Create requests are in flight and the read and the     *)
(* write of a handler are steps of their own.                              *)
(***************************************************************************)
EXTENDS Integers, Sequences, FiniteSets, TLC

\* Most records the collection is let grow to.
MaxLeaves == 2
\* Largest integer a request supplies as index.
MaxIndex == MaxLeaves - 1

VARIABLES
    isVercel,       \* process.env.VERCEL === '1', fixed at startup
    leavesFile,     \* data/leaves-data.json
    leavesStorage,  \* global.leavesStorage
    req,            \* the request handled last, with the size of the collection
                    \* it found and the outcome of the write it made ("none"
                    \* when it made no write)
    res,            \* the response sent to it
    calls           \* the Create requests in flight: for each, where its
                    \* handler is, its body, the array it read, its response

vars == <<isVercel, leavesFile, leavesStorage, req, res, calls>>

\* The requests that can be in flight together.
Requests == {1, 2}

\* A request slot with no request in it.
IdleCall == [pc |-> "idle"]

(***************************************************************************)
(* JavaScript values.  A number is held in halves (h = 2 * value), so that *)
(* 1.5 is a value; Infinity is what JSON.parse makes of a literal such as  *)
(* 1e999.                                                                  *)
(***************************************************************************)
Undefined == [t |-> "undefined"]
Null == [t |-> "null"]
Infinity == [t |-> "number", inf |-> TRUE]
Number(n) == [t |-> "number", h |-> 2 * n]
Halves(h) == [t |-> "number", h |-> h]
Str(s) == [t |-> "string", s |-> s]

\* typeof x
TypeOf(x) == IF x.t = "null" THEN "object" ELSE x.t

\* x >= 0, for x a number
GreaterEqualZero(x) == x = Infinity \/ x.h >= 0

\* The truthiness of x, as || tests it.
Truthy(x) ==
    CASE x.t = "undefined" -> FALSE
      [] x.t = "null" -> FALSE
      [] x.t = "string" -> x.s # ""
      [] x.t = "number" -> x = Infinity \/ x.h # 0
      [] OTHER -> TRUE

\* `${x}` for a number x >= 0 held in quarters (q = 4 * value).
TemplateNumber(q) ==
    ToString(q \div 4) \o
        (CASE q % 4 = 0 -> ""
           [] q % 4 = 1 -> ".25"
           [] q % 4 = 2 -> ".5"
           [] OTHER -> ".75")

\* The position a leaf gets when the request supplies none.
DefaultPosition(index) ==
    IF index = Infinity
    THEN [t |-> "object", left |-> "Infinity%", top |-> "Infinity%",
          rotation |-> "Infinitydeg"]
    ELSE [t |-> "object",
          left |-> TemplateNumber(80 + 4 * index.h) \o "%",
          top |-> TemplateNumber(120 + 3 * index.h) \o "%",
          rotation |-> TemplateNumber(90 * index.h) \o "deg"]

(***************************************************************************)
(* JSON.  JSON.stringify writes Infinity as null; every other value of a   *)
(* leaf is written as it is and JSON.parse reads it back.  The text of an  *)
(* array of leaves is held as the sequence of the leaves it spells.        *)
(***************************************************************************)
ToJSONValue(x) == IF x = Infinity THEN Null ELSE x

ToJSONLeaf(leaf) == [leaf EXCEPT !.index = ToJSONValue(@)]

JSONstringify(leaves) == [i \in 1..Len(leaves) |-> ToJSONLeaf(leaves[i])]

\* The file: absent, or holding a complete text, or a text cut short by a
\* write that failed after the file was opened (and truncated).
NoFile == [exists |-> FALSE, complete |-> FALSE, text |-> <<>>]
WrittenFile(text) == [exists |-> TRUE, complete |-> TRUE, text |-> text]
TruncatedFile == [exists |-> TRUE, complete |-> FALSE, text |-> <<>>]

\* JSON.parse of the file's data: a text cut short does not parse.
JSONparse(data) == [threw |-> ~data.complete, value |-> data.text]

(***************************************************************************)
(* The record store.                                                       *)
(***************************************************************************)
readLeaves ==
    IF isVercel
    THEN IF Len(leavesStorage) > 0 THEN leavesStorage ELSE <<>>
    ELSE IF leavesFile.exists
         THEN IF JSONparse(leavesFile).threw THEN <<>>
              ELSE JSONparse(leavesFile).value
         ELSE <<>>

\* What fs.writeFileSync does: "ok"; "EACCES", it could not open the file,
\* which is left as it was; "ENOSPC", it opened (and truncated) the file and
\* failed writing.
WriteOutcomes == {"ok", "EACCES", "ENOSPC"}

\* The outcomes a save can meet: on Vercel nothing is written to a file.
PossibleOutcomes == IF isVercel THEN {"ok"} ELSE WriteOutcomes

\* writeFileSync, were a write that fails for want of space to leave the
\* whole text behind.
writeFileSyncWhole(leaves, outcome) ==
    CASE outcome = "EACCES" -> leavesFile
      [] OTHER -> WrittenFile(JSONstringify(leaves))

writeFileSync(leaves, outcome) ==
    CASE outcome = "ok" -> WrittenFile(JSONstringify(leaves))
      [] outcome = "EACCES" -> leavesFile
      [] OTHER -> TruncatedFile

\* saveLeaves, were it to store on Vercel only an array that is not empty
\* (the test readLeaves makes of global.leavesStorage).
saveLeavesNotEmpty(leaves, outcome) ==
    IF isVercel
    THEN [file |-> leavesFile,
          storage |-> IF Len(leaves) > 0 THEN leaves ELSE leavesStorage,
          ok |-> TRUE]
    ELSE [file |-> writeFileSync(leaves, outcome), storage |-> leavesStorage,
          ok |-> outcome = "ok"]

\* saveLeaves(leaves): the store after it, and what it returns.
saveLeaves(leaves, outcome) ==
    IF isVercel
    THEN [file |-> leavesFile, storage |-> leaves, ok |-> TRUE]
    ELSE [file |-> writeFileSync(leaves, outcome), storage |-> leavesStorage,
          ok |-> outcome = "ok"]

Init ==
    /\ isVercel \in BOOLEAN
    /\ leavesFile = NoFile
    /\ leavesStorage = <<>>
    /\ req = [op |-> "none"]
    /\ res = [status |-> 0]
    /\ calls = [r \in Requests |-> IdleCall]

\* GET /api/leaves
ListLeaves ==
    /\ req' = [op |-> "list"]
    /\ res' = [status |-> 200, success |-> TRUE,
               leaves |-> JSONstringify(readLeaves),
               count |-> Len(readLeaves)]
    /\ UNCHANGED <<isVercel, leavesFile, leavesStorage, calls>>

(***************************************************************************)
(* POST /api/leaves                                                        *)
(***************************************************************************)
\* What a request body holds as index: nothing, an integer from 0 to
\* MaxIndex, -1, 1.5, a literal that overflows to Infinity, or a string.
IndexInputs ==
    {Undefined} \cup {Number(n) : n \in 0..MaxIndex}
        \cup {Number(-1), Halves(3), Infinity, Str("1")}

CustomPosition ==
    [t |-> "object", left |-> "50%", top |-> "40%", rotation |-> "90deg"]

\* What a request body holds as source and position: nothing, or both.
Extras ==
    {[source |-> Undefined, position |-> Undefined],
     [source |-> Str("thank-you"), position |-> CustomPosition]}

Bodies ==
    {[index |-> i, source |-> e.source, position |-> e.position] :
        i \in IndexInputs, e \in Extras}

\* The latest timestamp among leaves (0 when there is none).
RECURSIVE LastTimestamp(_)
LastTimestamp(leaves) ==
    IF leaves = <<>> THEN 0
    ELSE LET rest == LastTimestamp(Tail(leaves))
         IN IF Head(leaves).timestamp > rest THEN Head(leaves).timestamp ELSE rest

\* new Date(): the readings the clock can give.  Time is counted in
\* milliseconds from the first record of the collection, and between the
\* latest record and the next the clock has advanced, or has not.
ClockReadings ==
    IF readLeaves = <<>> THEN {0}
    ELSE {LastTimestamp(readLeaves), LastTimestamp(readLeaves) + 1}

\* leaves.find(leaf => leaf.index === index): the place of the first such
\* leaf, 0 when there is none.
Find(leaves, index) ==
    IF \E i \in 1..Len(leaves) : leaves[i].index = index
    THEN CHOOSE i \in 1..Len(leaves) :
            /\ leaves[i].index = index
            /\ \A j \in 1..(i - 1) : leaves[j].index # index
    ELSE 0

\* usedIndices.includes(nextIndex)
Includes(usedIndices, nextIndex) ==
    \E i \in 1..Len(usedIndices) : usedIndices[i] = Number(nextIndex)

\* while (usedIndices.includes(nextIndex)) nextIndex++
RECURSIVE NextIndexFrom(_, _)
NextIndexFrom(usedIndices, nextIndex) ==
    IF Includes(usedIndices, nextIndex)
    THEN NextIndexFrom(usedIndices, nextIndex + 1)
    ELSE nextIndex

\* The next index, were it the number of leaves.
NextIndexByCount(leaves) == Len(leaves)

NextIndex(leaves) ==
    NextIndexFrom([i \in 1..Len(leaves) |-> leaves[i].index], 0)

\* The test, were it the truthiness of index: 0 is then not provided.
IndexProvidedTruthy(index) == TypeOf(index) = "number" /\ Truthy(index)

\* Whether the handler takes the request's index as the leaf's.
IndexProvided(index) == TypeOf(index) = "number" /\ GreaterEqualZero(index)

\* The new leaf, were its index counted from 1.
NewLeafFromOne(index, timestamp, source, position) ==
    [index |-> IF index = Infinity THEN index ELSE Halves(index.h + 2),
     timestamp |-> timestamp,
     source |-> IF Truthy(source) THEN source ELSE Str("manual"),
     position |-> IF Truthy(position) THEN position ELSE DefaultPosition(index)]

NewLeaf(index, timestamp, source, position) ==
    [index |-> index,
     timestamp |-> timestamp,
     source |-> IF Truthy(source) THEN source ELSE Str("manual"),
     position |-> IF Truthy(position) THEN position ELSE DefaultPosition(index)]

\* A push onto the array readLeaves returned is a push onto
\* global.leavesStorage when that array is the one returned; saveLeaves then
\* stores a copy of the same array, and on Vercel cannot fail.
CreateLeaf(body, now, outcome) ==
    LET leaves == readLeaves
        index == body.index
        existingLeaf == Find(leaves, index)
        newLeaf ==
            NewLeaf(IF IndexProvided(index) THEN index
                    ELSE Number(NextIndex(leaves)),
                    now, body.source, body.position)
        pushed == Append(leaves, newLeaf)
        saved == saveLeaves(pushed, outcome)
    IN  /\ IF IndexProvided(index) /\ existingLeaf # 0
           THEN /\ req' = [op |-> "create", body |-> body,
                           count |-> Len(leaves), outcome |-> "none"]
                /\ res' = [status |-> 200, success |-> TRUE,
                           message |-> "Leaf already exists",
                           leaf |-> ToJSONLeaf(leaves[existingLeaf]),
                           totalLeaves |-> Len(leaves)]
                /\ UNCHANGED <<isVercel, leavesFile, leavesStorage, calls>>
           ELSE /\ Len(leaves) < MaxLeaves
                /\ req' = [op |-> "create", body |-> body,
                           count |-> Len(leaves), outcome |-> outcome]
                /\ leavesFile' = saved.file
                /\ leavesStorage' = saved.storage
                /\ res' = IF saved.ok
                          THEN [status |-> 201, success |-> TRUE,
                                message |-> "Leaf added successfully",
                                leaf |-> ToJSONLeaf(newLeaf),
                                totalLeaves |-> Len(pushed)]
                          ELSE [status |-> 500, success |-> FALSE,
                                error |-> "Failed to save leaf"]
                /\ UNCHANGED <<isVercel, calls>>

\* saveLeaves([]) and the response to it, for both clearing routes.
Clear(op, outcome) ==
    LET saved == saveLeaves(<<>>, outcome)
    IN  /\ req' = [op |-> op, count |-> Len(readLeaves), outcome |-> outcome]
        /\ leavesFile' = saved.file
        /\ leavesStorage' = saved.storage
        /\ res' = IF saved.ok
                  THEN [status |-> 200, success |-> TRUE,
                        message |-> "All leaves cleared successfully"]
                  ELSE [status |-> 500, success |-> FALSE,
                        error |-> "Failed to clear leaves"]
        /\ UNCHANGED <<isVercel, calls>>

\* DELETE /api/leaves
DeleteLeaves(outcome) == Clear("delete", outcome)

\* GET /api/leaves/clear
GetClear(outcome) == Clear("clear", outcome)

(***************************************************************************)
(* GET /api/leaves/stats                                                   *)
(***************************************************************************)
\* sorted, with leaf put after every leaf the comparator
\* (a, b) => new Date(b.timestamp) - new Date(a.timestamp) does not put
\* behind it: Array.prototype.sort is stable.
RECURSIVE InsertLeaf(_, _)
InsertLeaf(sorted, leaf) ==
    IF sorted = <<>> THEN <<leaf>>
    ELSE IF leaf.timestamp - Head(sorted).timestamp > 0
         THEN <<leaf>> \o sorted
         ELSE <<Head(sorted)>> \o InsertLeaf(Tail(sorted), leaf)

RECURSIVE SortLeaves(_)
SortLeaves(leaves) ==
    IF leaves = <<>> THEN <<>>
    ELSE InsertLeaf(SortLeaves(SubSeq(leaves, 1, Len(leaves) - 1)),
                    leaves[Len(leaves)])

\* leaves.reduce((oldest, leaf) => leaf.timestamp < oldest.timestamp ? leaf : oldest)
RECURSIVE ReduceOldest(_, _)
ReduceOldest(oldest, leaves) ==
    IF leaves = <<>> THEN oldest
    ELSE ReduceOldest(IF Head(leaves).timestamp < oldest.timestamp
                      THEN Head(leaves) ELSE oldest, Tail(leaves))

\* leaves.reduce((newest, leaf) => leaf.timestamp > newest.timestamp ? leaf : newest)
RECURSIVE ReduceNewest(_, _)
ReduceNewest(newest, leaves) ==
    IF leaves = <<>> THEN newest
    ELSE ReduceNewest(IF Head(leaves).timestamp > newest.timestamp
                      THEN Head(leaves) ELSE newest, Tail(leaves))

\* stats.sources: each source with the number of leaves that carry it.
CountSources(leaves) ==
    [s \in {leaves[i].source.s : i \in 1..Len(leaves)} |->
        Cardinality({i \in 1..Len(leaves) : leaves[i].source.s = s})]

\* leaves.sort() sorts the array readLeaves returned, in place: on Vercel
\* that array is global.leavesStorage itself when it is not empty.
GetStats ==
    LET leaves == SortLeaves(readLeaves)
    IN  /\ req' = [op |-> "stats"]
        /\ res' = [status |-> 200, success |-> TRUE,
                   totalLeaves |-> Len(leaves),
                   sources |-> CountSources(leaves),
                   recentLeaves |->
                       JSONstringify(SubSeq(leaves, 1,
                           IF Len(leaves) < 5 THEN Len(leaves) ELSE 5)),
                   oldestLeaf |->
                       IF Len(leaves) > 0
                       THEN ToJSONLeaf(ReduceOldest(Head(leaves), Tail(leaves)))
                       ELSE Null,
                   newestLeaf |->
                       IF Len(leaves) > 0
                       THEN ToJSONLeaf(ReduceNewest(Head(leaves), Tail(leaves)))
                       ELSE Null]
        /\ leavesStorage' = IF isVercel /\ Len(leavesStorage) > 0
                            THEN leaves ELSE leavesStorage
        /\ UNCHANGED <<isVercel, leavesFile, calls>>

(***************************************************************************)
(* The health router.                                                      *)
(***************************************************************************)
\* Whether the health check read and parsed the file.
healthRead == ~isVercel /\ leavesFile.exists /\ ~JSONparse(leavesFile).threw

\* totalLeaves, were it read from global.leavesStorage.
totalLeavesOfStorage == Len(leavesStorage)

\* totalLeaves, as the health check leaves it.
totalLeaves == IF healthRead THEN Len(JSONparse(leavesFile).value) ELSE 0

\* GET /api/health
GetHealth ==
    /\ req' = [op |-> "health"]
    /\ res' = [status |-> 200, body |-> "OK",
               platform |-> IF isVercel THEN "vercel" ELSE "local",
               total |-> totalLeaves,
               dataFile |-> IF isVercel THEN "vercel-memory"
                            ELSE IF healthRead THEN "exists" ELSE "missing"]
        /\ UNCHANGED <<isVercel, leavesFile, leavesStorage, calls>>

\* The data directory as a readiness check finds it.
DataDirs == {"missing", "readonly", "writable"}

\* fs.existsSync(dataDir)
existsSync(dataDir) == dataDir # "missing"

\* fs.accessSync(dataDir, fs.constants.W_OK): it returns undefined, or throws.
accessSync(dataDir) == [threw |-> dataDir # "writable", value |-> Undefined]

\* GET /api/health/ready
GetReady(dataDir) ==
    LET access == accessSync(dataDir)
        threw == existsSync(dataDir) /\ access.threw
        isWritable == existsSync(dataDir) /\ Truthy(access.value)
    IN  /\ req' = [op |-> "ready", dataDir |-> dataDir]
        /\ res' = IF ~threw /\ isWritable
                  THEN [status |-> 200, body |-> "READY"]
                  ELSE [status |-> 503, body |-> "NOT_READY"]
        /\ UNCHANGED <<isVercel, leavesFile, leavesStorage, calls>>

\* GET /api/health/live
GetLive ==
    /\ req' = [op |-> "live"]
    /\ res' = [status |-> 200, body |-> "ALIVE"]
    /\ UNCHANGED <<isVercel, leavesFile, leavesStorage, calls>>

Next ==
    \/ ListLeaves
    \/ \E body \in Bodies, outcome \in PossibleOutcomes :
        \E now \in ClockReadings : CreateLeaf(body, now, outcome)
    \/ \E outcome \in PossibleOutcomes : DeleteLeaves(outcome)
    \/ \E outcome \in PossibleOutcomes : GetClear(outcome)
    \/ GetStats
    \/ GetHealth
    \/ \E dataDir \in DataDirs : GetReady(dataDir)
    \/ GetLive

Spec == Init /\ [][Next]_vars

(***************************************************************************)
(* Create requests in flight together.  A request is received (its body    *)
(* parsed by express.json), then its handler runs: it reads the collection *)
(* (line 125) and, in a later step, pushes, saves and responds (lines 128  *)
(* to 192).  The handler is a synchronous function: fs.readFileSync,       *)
(* fs.writeFileSync, no await and no callback, so once it has started no   *)
(* other handler starts before it has returned.                            *)
(***************************************************************************)
\* The bodies of the requests in flight: no index, or an integer.
RaceBodies ==
    {b \in Bodies : b.source = Undefined /\ (b.index = Undefined \/ b.index.t = "number")
                     /\ b.index \notin {Number(-1), Halves(3), Infinity}}

\* A request arrives and waits for its handler to be called; overlap tells
\* whether another request was then waiting or being handled.
Receive(r, body) ==
    /\ calls[r].pc = "idle"
    /\ calls' = [calls EXCEPT ![r] =
                    [pc |-> "received", body |-> body,
                     overlap |-> \E q \in Requests \ {r} :
                                    calls[q].pc \in {"received", "running"}]]
    /\ UNCHANGED <<isVercel, leavesFile, leavesStorage, req, res>>

\* The handler of r could start, were it to yield between its read and its
\* write (as with await fs.promises.readFile): whenever r is waiting.
CanStartWhileAnotherRuns(r) == TRUE

\* The handler of r can start: no other handler is between its first and
\* its last statement.
CanStart(r) == \A q \in Requests \ {r} : calls[q].pc # "running"

\* const leaves = readLeaves()
ReadStep(r) ==
    /\ calls[r].pc = "received"
    /\ CanStart(r)
    /\ calls' = [calls EXCEPT ![r] =
                    [pc |-> "running", body |-> calls[r].body,
                     overlap |-> calls[r].overlap, leaves |-> readLeaves]]
    /\ UNCHANGED <<isVercel, leavesFile, leavesStorage, req, res>>

\* The rest of the handler, on the array it read: the duplicate check, the
\* push, saveLeaves and the response.
WriteStep(r, now, outcome) ==
    LET leaves == calls[r].leaves
        body == calls[r].body
        index == body.index
        existingLeaf == Find(leaves, index)
        newLeaf ==
            NewLeaf(IF IndexProvided(index) THEN index
                    ELSE Number(NextIndex(leaves)),
                    now, body.source, body.position)
        pushed == Append(leaves, newLeaf)
        saved == saveLeaves(pushed, outcome)
    IN  /\ calls[r].pc = "running"
        /\ IF IndexProvided(index) /\ existingLeaf # 0
           THEN /\ calls' = [calls EXCEPT ![r] =
                    [pc |-> "done", body |-> body, overlap |-> calls[r].overlap,
                     leaves |-> leaves,
                     res |-> [status |-> 200, success |-> TRUE,
                              message |-> "Leaf already exists",
                              leaf |-> ToJSONLeaf(leaves[existingLeaf]),
                              totalLeaves |-> Len(leaves)]]]
                /\ UNCHANGED <<leavesFile, leavesStorage>>
           ELSE /\ Len(leaves) < MaxLeaves
                /\ leavesFile' = saved.file
                /\ leavesStorage' = saved.storage
                /\ calls' = [calls EXCEPT ![r] =
                    [pc |-> "done", body |-> body, overlap |-> calls[r].overlap,
                     leaves |-> leaves,
                     res |-> IF saved.ok
                             THEN [status |-> 201, success |-> TRUE,
                                   message |-> "Leaf added successfully",
                                   leaf |-> ToJSONLeaf(newLeaf),
                                   totalLeaves |-> Len(pushed)]
                             ELSE [status |-> 500, success |-> FALSE,
                                   error |-> "Failed to save leaf"]]]
        /\ UNCHANGED <<isVercel, req, res>>

\* The response has been sent: the slot is free for another request.
Respond(r) ==
    /\ calls[r].pc = "done"
    /\ calls' = [calls EXCEPT ![r] = IdleCall]
    /\ UNCHANGED <<isVercel, leavesFile, leavesStorage, req, res>>

NextRace ==
    \/ \E r \in Requests, body \in RaceBodies : Receive(r, body)
    \/ \E r \in Requests : ReadStep(r)
    \/ \E r \in Requests, outcome \in PossibleOutcomes :
        \E now \in ClockReadings : WriteStep(r, now, outcome)
    \/ \E r \in Requests : Respond(r)

SpecRace == Init /\ [][NextRace]_vars

(***************************************************************************)
(* Properties.  Every step that is not a stuttering step handles one       *)
(* request, which req' names; readLeaves is the collection before it and   *)
(* readLeaves' the collection after it.                                    *)
(***************************************************************************)
\* A non-negative integer: what the data model takes as an index.
IsIndex(x) == x.t = "number" /\ x # Infinity /\ x.h >= 0 /\ x.h % 2 = 0

\* The indices of the collection.
Indices(leaves) == {leaves[i].index : i \in 1..Len(leaves)}

\* The smallest non-negative integer that is not among indices.
Mex(indices) ==
    CHOOSE n \in 0..Cardinality(indices) :
        /\ Number(n) \notin indices
        /\ \A m \in 0..(n - 1) : Number(m) \in indices

\* The store write of the request succeeded.
WriteSucceeds(r) == r.outcome = "ok"

\* The store write of the request failed.
WriteFails(r) == r.outcome \in {"EACCES", "ENOSPC"}

\* C1: a Create whose index is already present in the collection writes
\* nothing, leaves the collection as it is, and answers 200 with the record
\* that holds the index, whatever source and position it supplied.
C1_CreateExistingIsNoOp ==
    [][(req'.op = "create" /\ req'.body.index \in Indices(readLeaves)) =>
        /\ req'.outcome = "none"
        /\ leavesFile' = leavesFile
        /\ leavesStorage' = leavesStorage
        /\ readLeaves' = readLeaves
        /\ res'.status = 200
        /\ \E i \in 1..Len(readLeaves) :
            /\ readLeaves[i].index = req'.body.index
            /\ res'.leaf = ToJSONLeaf(readLeaves[i])
        /\ res'.totalLeaves = Len(readLeaves)]_vars

\* C1 witness: a Create answered 200 with a record whose source is not the
\* one the request supplied.
C1_Witness ==
    /\ req.op = "create"
    /\ res.status = 200
    /\ req.body.index \in Indices(readLeaves)
    /\ req.body.source = Str("thank-you")
    /\ res.leaf.source = Str("manual")

\* C2 as stated: a Create without index appends exactly one record, whose
\* index is the smallest non-negative integer not among the existing
\* indices, and answers 201 with it.
C2_CreateWithoutIndex ==
    [][(req'.op = "create" /\ req'.body.index = Undefined) =>
        /\ Len(readLeaves') = Len(readLeaves) + 1
        /\ SubSeq(readLeaves', 1, Len(readLeaves)) = readLeaves
        /\ readLeaves'[Len(readLeaves')].index = Number(Mex(Indices(readLeaves)))
        /\ res'.status = 201
        /\ res'.leaf = readLeaves'[Len(readLeaves')]]_vars

\* C2 amended: a Create without index whose store write succeeds appends
\* exactly one record, whose index is the smallest non-negative integer not
\* among the existing indices, and answers 201 with it.
C2_CreateWithoutIndexSaved ==
    [][(req'.op = "create" /\ req'.body.index = Undefined /\ WriteSucceeds(req')) =>
        /\ Len(readLeaves') = Len(readLeaves) + 1
        /\ SubSeq(readLeaves', 1, Len(readLeaves)) = readLeaves
        /\ readLeaves'[Len(readLeaves')].index = Number(Mex(Indices(readLeaves)))
        /\ res'.status = 201
        /\ res'.leaf = readLeaves'[Len(readLeaves')]]_vars

\* C2 witness: a Create without index was given an index below one the
\* collection already held.
C2_Witness ==
    /\ req.op = "create"
    /\ req.body.index = Undefined
    /\ res.status = 201
    /\ Len(readLeaves) = 2
    /\ IsIndex(readLeaves[1].index)
    /\ readLeaves[1].index.h > readLeaves[2].index.h
    /\ res.leaf = readLeaves[2]

\* C3: a Create with an index (a non-negative integer) that is not present,
\* whose store write succeeds, appends one record at the end, leaves the
\* prior records as they are, gives the new record the supplied index, and
\* answers 201 with it.
C3_CreateWithUnusedIndex ==
    [][(/\ req'.op = "create"
        /\ IsIndex(req'.body.index)
        /\ req'.body.index \notin Indices(readLeaves)
        /\ WriteSucceeds(req')) =>
        /\ Len(readLeaves') = Len(readLeaves) + 1
        /\ SubSeq(readLeaves', 1, Len(readLeaves)) = readLeaves
        /\ readLeaves'[Len(readLeaves')].index = req'.body.index
        /\ res'.status = 201
        /\ res'.leaf = readLeaves'[Len(readLeaves')]
        /\ res'.totalLeaves = Len(readLeaves')]_vars

\* C3 witness: a Create with index 1 was appended to a collection that held
\* another record.
C3_Witness ==
    /\ req.op = "create"
    /\ req.body.index = Number(1)
    /\ req.count = 1
    /\ res.status = 201
    /\ Len(readLeaves) = 2
    /\ readLeaves[2].index = Number(1)

\* C4 as stated: from an empty store, after any sequence of requests handled
\* one at a time, the collection holds at most one record per index value.
C4_OneRecordPerIndex ==
    \A i, j \in 1..Len(readLeaves) :
        i # j => readLeaves[i].index # readLeaves[j].index

\* C5 as stated: a Create whose index is supplied and is not a non-negative
\* integer is answered with a client error and adds no record.
C5_InvalidIndexRejected ==
    [][(/\ req'.op = "create"
        /\ req'.body.index # Undefined
        /\ ~IsIndex(req'.body.index)) =>
        /\ res'.status \in 400..499
        /\ readLeaves' = readLeaves]_vars

\* A request that clears the collection, by either route.
IsClear(r) == r.op \in {"delete", "clear"}

\* C6 as stated: a Clear, by either route, leaves the collection with size
\* 0 whatever it held, and a List that follows returns an empty sequence
\* with count 0.
C6_ClearEmpties ==
    [][/\ IsClear(req') => Len(readLeaves') = 0
       /\ (IsClear(req) /\ req'.op = "list") =>
            (res'.leaves = <<>> /\ res'.count = 0)]_vars

\* C6 amended: a Clear, by either route, whose store write succeeds (as it
\* always does in ephemeral mode) answers 200 and leaves the collection
\* with size 0 whatever it held, and a List that follows it returns an
\* empty sequence with count 0.
C6_SavedClearEmpties ==
    [][/\ (IsClear(req') /\ WriteSucceeds(req')) =>
            (res'.status = 200 /\ Len(readLeaves') = 0)
       /\ (IsClear(req') /\ isVercel) => WriteSucceeds(req')
       /\ (IsClear(req) /\ WriteSucceeds(req) /\ req'.op = "list") =>
            (res'.leaves = <<>> /\ res'.count = 0)]_vars

\* C6 witness: a Clear by the GET route found two records in the
\* collection, was answered 200 and left none.
C6_Witness ==
    /\ req.op = "clear"
    /\ req.count = 2
    /\ res.status = 200
    /\ readLeaves = <<>>

\* C7 as stated: readiness answers READY exactly when storage is writable:
\* in file-backed mode when the data directory exists and can be written,
\* in ephemeral mode always.
C7_ReadyWhenWritable ==
    req.op = "ready" =>
        (res.body = "READY" <=> (isVercel \/ req.dataDir = "writable"))

\* C8 as stated: a Create whose store write fails is answered 500 with
\* success false, and the collection a List returns afterwards is the one
\* before the Create.
C8_FailedCreateKeepsCollection ==
    [][(req'.op = "create" /\ WriteFails(req')) =>
        /\ res'.status = 500
        /\ ~res'.success
        /\ readLeaves' = readLeaves]_vars

\* C8 amended: a Create whose store write fails is answered 500 with
\* success false and its record is not committed: the collection a List
\* returns afterwards is the one before the Create when the write could not
\* open the file, and is empty when the write failed after the file was
\* opened, which leaves a file that does not parse.  This happens in
\* file-backed mode only: in ephemeral mode the store write does not fail.
C8_FailedCreateNotCommitted ==
    [][/\ (req'.op = "create" /\ WriteFails(req')) =>
            /\ ~isVercel
            /\ res'.status = 500
            /\ ~res'.success
            /\ req'.outcome = "EACCES" => readLeaves' = readLeaves
            /\ req'.outcome = "ENOSPC" => readLeaves' = <<>>
       /\ (req'.op = "create" /\ res'.status = 500) => WriteFails(req')]_vars

\* C8 witness: a Create on a collection that held a record was answered 500
\* and the file it leaves does not parse.
C8_Witness ==
    /\ req.op = "create"
    /\ res.status = 500
    /\ req.count > 0
    /\ leavesFile = TruncatedFile
    /\ readLeaves = <<>>

\* C8 witness of the other case: a Create on a collection that held a
\* record was answered 500 and the collection is the one it found.
C8_WitnessUntouched ==
    /\ req.op = "create"
    /\ res.status = 500
    /\ req.count > 0
    /\ Len(readLeaves) = req.count

\* C9 as stated: in both storage modes Health reports a leaf count equal to
\* the size of the collection.
C9_HealthCountsLeaves ==
    req.op = "health" => res.total = Len(readLeaves)

\* C9 amended: in file-backed mode Health reports a leaf count equal to the
\* size of the collection; in ephemeral mode it reports 0 whatever the
\* collection holds.
C9_HealthCountsFileLeaves ==
    req.op = "health" =>
        res.total = (IF isVercel THEN 0 ELSE Len(readLeaves))

\* C9 witness: Health in file-backed mode reported the two records of the
\* collection.
C9_Witness ==
    /\ req.op = "health"
    /\ ~isVercel
    /\ res.total = 2
    /\ Len(readLeaves) = 2

\* C10 as stated: List and Stats leave the stored collection with the same
\* records in the same order, in both storage modes.
C10_ListAndStatsReadOnly ==
    [][req'.op \in {"list", "stats"} => readLeaves' = readLeaves]_vars

(***************************************************************************)
(* Properties of SpecRace.                                                 *)
(***************************************************************************)
\* C11 as stated: two Create requests of one server process can interleave
\* between one request's read of the collection and its write: while the
\* handler of one is between its read and its write, the handler of another
\* that is waiting can start (and so lose an update or store an index
\* twice).
C11_CreatesInterleave ==
    \A r, q \in Requests :
        (r # q /\ calls[r].pc = "running" /\ calls[q].pc = "received") =>
            ENABLED ReadStep(q)

\* C11 amended: two Create requests of one server process do not interleave
\* between one request's read of the collection and its write: no two
\* handlers are between read and write together, the array a handler writes
\* from is the collection as it is stored at that moment, and a Create
\* answered 201 (its index omitted or a non-negative integer) leaves the
\* stored collection with every record it held, followed by the new one,
\* whose index no stored record held: no update is lost and no index is
\* stored twice.
C11_CreatesRunToCompletion ==
    [][\A r \in Requests :
        (calls[r].pc = "running" /\ calls'[r].pc = "done") =>
            /\ \A q \in Requests \ {r} : calls[q].pc # "running"
            /\ calls[r].leaves = readLeaves
            /\ calls'[r].res.status = 201 =>
                /\ Len(readLeaves') = Len(readLeaves) + 1
                /\ SubSeq(readLeaves', 1, Len(readLeaves)) = readLeaves
                /\ ToJSONLeaf(readLeaves'[Len(readLeaves')]) = calls'[r].res.leaf
                /\ calls'[r].res.leaf.index \notin Indices(readLeaves)]_vars

\* C11 witness: two Creates without index were in flight together (the
\* second arrived before the first was answered), both were answered 201,
\* and the collection holds both records, with indices 0 and 1.
C11_Witness ==
    /\ calls[1].pc = "done" /\ calls[2].pc = "done"
    /\ calls[2].overlap
    /\ calls[1].body.index = Undefined /\ calls[2].body.index = Undefined
    /\ calls[1].res.status = 201 /\ calls[2].res.status = 201
    /\ Len(readLeaves) = 2
    /\ calls[1].res.leaf = readLeaves[1]
    /\ calls[2].res.leaf = readLeaves[2]
    /\ Indices(readLeaves) = {Number(0), Number(1)}
====
